---- MODULE Spec2Model ----
(***************************************************************************)
(* LogBuddy (src/src/extension.ts): the log-to-error-flow parser           *)
(* (parseErrorFlow), the diagram renderer (buildMermaidFlowchart), the     *)
(* reference extractor (extractFileReferences), the explanation chain      *)
(* (explainLog) and the extension around them: the terminal buffers and    *)
(* the commands visualizeLastRun and explainLastRun.                       *)
(*                                                                         *)
(* A JavaScript string is modelled as a sequence of characters, each       *)
(* character a one-character TLA+ string; the escape character U+001B is   *)
(* the element ESC.  `undefined` is the value Undefined (strings) or       *)
(* NoNumber (numbers).                                                     *)
(***************************************************************************)
EXTENDS Integers, Sequences, FiniteSets, TLC

VARIABLES
  log, pc, flow, mermaidCode,   \* the locals of visualizeLastRun
  activated,                    \* between activate and deactivate
  activeTerminal,               \* vscode.window.activeTerminal
  terminalBuffers,              \* the map terminalBuffers
  written,                      \* the data chunks each terminal has written
  config,                       \* the logBuddy settings
  explains,                     \* the invocations of explainLastRun
  channel,                      \* the lines of the LogBuddy output channel
  effects                       \* what the handler that ran last has called

coreVars == <<log, pc, flow, mermaidCode>>

extVars ==
  <<activated, activeTerminal, terminalBuffers, written, config, explains, channel, effects>>

vars ==
  <<log, pc, flow, mermaidCode, activated, activeTerminal, terminalBuffers, written,
    config, explains, channel, effects>>

\* ------------------------------------------------------------------------
\* Characters and character classes of the regular expressions
\* ------------------------------------------------------------------------
ESC == "ESC"

Undefined == <<"undefined">>

NoNumber == -1

Digit == {"0", "1", "2", "3", "4", "5", "6", "7", "8", "9"}

Letter ==
  {"a", "b", "c", "d", "e", "f", "g", "h", "i", "j", "k", "l", "m",
   "n", "o", "p", "q", "r", "s", "t", "u", "v", "w", "x", "y", "z",
   "A", "B", "C", "D", "E", "F", "G", "H", "I", "J", "K", "L", "M",
   "N", "O", "P", "Q", "R", "S", "T", "U", "V", "W", "X", "Y", "Z"}

\* \w
WordChar == Letter \cup Digit \cup {"_"}

\* \s, and the characters String.prototype.trim removes
WhiteSpace == {" ", "\t", "\n", "\r", "\f"}

\* the characters `.` does not match
LineTerminator == {"\n", "\r"}

DigitValue(c) ==
  CASE c = "0" -> 0 [] c = "1" -> 1 [] c = "2" -> 2 [] c = "3" -> 3
    [] c = "4" -> 4 [] c = "5" -> 5 [] c = "6" -> 6 [] c = "7" -> 7
    [] c = "8" -> 8 [] c = "9" -> 9

DigitChar(d) ==
  CASE d = 0 -> "0" [] d = 1 -> "1" [] d = 2 -> "2" [] d = 3 -> "3"
    [] d = 4 -> "4" [] d = 5 -> "5" [] d = 6 -> "6" [] d = 7 -> "7"
    [] d = 8 -> "8" [] d = 9 -> "9"

\* ------------------------------------------------------------------------
\* String primitives
\* ------------------------------------------------------------------------
Min(S) == CHOOSE x \in S : \A y \in S : x <= y

Max(S) == CHOOSE x \in S : \A y \in S : x >= y

\* s.startsWith(p, at - 1)
StartsWithAt(s, p, at) ==
  /\ at >= 1
  /\ at + Len(p) - 1 <= Len(s)
  /\ \A i \in 1..Len(p) : s[at + i - 1] = p[i]

EndsWith(s, p) == Len(p) <= Len(s) /\ StartsWithAt(s, p, Len(s) - Len(p) + 1)

\* s.includes(p)
Includes(s, p) == \E at \in 1..(Len(s) + 1) : StartsWithAt(s, p, at)

\* all characters of s[from..to] are in the class
AllIn(s, from, to, class) == \A i \in from..to : s[i] \in class

\* first index >= from whose character is in the class, Len(s)+1 when none
FirstIn(s, from, class) ==
  LET hits == {i \in from..Len(s) : s[i] \in class}
  IN  IF hits = {} THEN Len(s) + 1 ELSE Min(hits)

\* first index >= from whose character is outside the class, Len(s)+1 when none
FirstNotIn(s, from, class) ==
  LET hits == {i \in from..Len(s) : s[i] \notin class}
  IN  IF hits = {} THEN Len(s) + 1 ELSE Min(hits)

\* String.prototype.trim
Trim(s) ==
  LET keep == {i \in 1..Len(s) : s[i] \notin WhiteSpace}
  IN  IF keep = {} THEN <<>> ELSE SubSeq(s, Min(keep), Max(keep))

\* /^\d+$/.test(s)
IsDigits(s) == Len(s) >= 1 /\ AllIn(s, 1, Len(s), Digit)

\* parseInt(s, 10) of a string of decimal digits
RECURSIVE ParseInt(_)
ParseInt(s) ==
  IF Len(s) = 0 THEN 0
  ELSE 10 * ParseInt(SubSeq(s, 1, Len(s) - 1)) + DigitValue(s[Len(s)])

\* String(n) of a non-negative integer, as in a template literal
RECURSIVE NumberToString(_)
NumberToString(n) ==
  IF n < 10 THEN <<DigitChar(n)>>
  ELSE NumberToString(n \div 10) \o <<DigitChar(n % 10)>>

\* s.split(sep) for a set of one-character separators
RECURSIVE SplitOn(_, _)
SplitOn(s, seps) ==
  LET k == FirstIn(s, 1, seps)
  IN  IF k > Len(s) THEN <<s>>
      ELSE <<SubSeq(s, 1, k - 1)>> \o SplitOn(SubSeq(s, k + 1, Len(s)), seps)

\* parts.join(sep)
RECURSIVE Join(_, _)
Join(parts, sep) ==
  IF Len(parts) = 0 THEN <<>>
  ELSE IF Len(parts) = 1 THEN parts[1]
  ELSE parts[1] \o sep \o Join(Tail(parts), sep)

\* log.split(/\r?\n/): a "\r" right before the "\n" belongs to the separator
RECURSIVE SplitLines(_)
SplitLines(s) ==
  LET k == FirstIn(s, 1, {"\n"})
  IN  IF k > Len(s) THEN <<s>>
      ELSE LET e == IF k > 1 /\ s[k - 1] = "\r" THEN k - 2 ELSE k - 1
           IN  <<SubSeq(s, 1, e)>> \o SplitLines(SubSeq(s, k + 1, Len(s)))

\* frames.reverse()
Reverse(s) == [i \in 1..Len(s) |-> s[Len(s) + 1 - i]]

\* ------------------------------------------------------------------------
\* Line sanitizer (parseErrorFlow, the first statement of the loop body)
\* ------------------------------------------------------------------------
\* /\x1b\[[\d;]*m/ matched at index k: the index of its final "m", else 0
SgrEnd(s, k) ==
  IF k + 1 <= Len(s) /\ s[k] = ESC /\ s[k + 1] = "["
  THEN LET j == FirstNotIn(s, k + 2, Digit \cup {";"})
       IN  IF j <= Len(s) /\ s[j] = "m" THEN j ELSE 0
  ELSE 0

\* s.replace(/\x1b\[[\d;]*m/g, ''): one left-to-right pass
RECURSIVE StripAnsi(_)
StripAnsi(s) ==
  LET k == FirstIn(s, 1, {ESC})
  IN  IF k > Len(s) THEN s
      ELSE LET e == SgrEnd(s, k)
           IN  IF e > 0
               THEN SubSeq(s, 1, k - 1) \o StripAnsi(SubSeq(s, e + 1, Len(s)))
               ELSE SubSeq(s, 1, k) \o StripAnsi(SubSeq(s, k + 1, Len(s)))

\* s.replace(/\r$/, '')
StripTrailingCR(s) ==
  IF Len(s) >= 1 /\ s[Len(s)] = "\r" THEN SubSeq(s, 1, Len(s) - 1) ELSE s

\* const raw = line.replace(ansi, '').replace(/\r$/, '').trim()
Sanitize(line) == Trim(StripTrailingCR(StripAnsi(line)))

\* ------------------------------------------------------------------------
\* Frame extractor: the Node-style matcher
\* ------------------------------------------------------------------------
\* the source extensions of the fallback scan: js|ts|tsx|jsx|mjs|cjs|py|rs|go
Extensions ==
  {<<"j", "s">>, <<"t", "s">>, <<"t", "s", "x">>, <<"j", "s", "x">>,
   <<"m", "j", "s">>, <<"c", "j", "s">>, <<"p", "y">>, <<"r", "s">>,
   <<"g", "o">>}

NodeColon == <<"n", "o", "d", "e", ":">>

NodeModules == <<"n", "o", "d", "e", "_", "m", "o", "d", "u", "l", "e", "s">>

\* content.includes('node:') || content.includes('node_modules')
IsInternal(content) == Includes(content, NodeColon) \/ Includes(content, NodeModules)

\* !inner, for inner a string or null
Falsy(s) == s = Undefined \/ s = <<>>

\* /at\s+.*?\(([^)]+)\)/ with the match starting at index s: group 1, or
\* Undefined.  \s+ takes the whole whitespace run, the lazy .*? stops at the
\* first "(" that a non-empty [^)]+ and a ")" follow, and `.` crosses no
\* line terminator.
AtParenAt(raw, s) ==
  IF StartsWithAt(raw, <<"a", "t">>, s) /\ s + 2 <= Len(raw) /\ raw[s + 2] \in WhiteSpace
  THEN LET e == FirstNotIn(raw, s + 2, WhiteSpace)
           limit == FirstIn(raw, e, LineTerminator)
           opens == {j \in e..(limit - 1) :
                       /\ raw[j] = "("
                       /\ LET k == FirstIn(raw, j + 1, {")"})
                          IN  k <= Len(raw) /\ k > j + 1}
       IN  IF opens = {} THEN Undefined
           ELSE LET j == Min(opens)
                IN  SubSeq(raw, j + 1, FirstIn(raw, j + 1, {")"}) - 1)
  ELSE Undefined

\* raw.match(/at\s+.*?\(([^)]+)\)/): group 1 of the leftmost match
AtParen(raw) ==
  LET starts == {s \in 1..Len(raw) : AtParenAt(raw, s) # Undefined}
  IN  IF starts = {} THEN Undefined ELSE AtParenAt(raw, Min(starts))

\* the indices of the ":" of a match of /\.(?:js|ts|...):\d/ whose "." is at d
ExtColonAt(c, d) ==
  {p \in (d + 1)..Len(c) :
     /\ c[d] = "."
     /\ \E ext \in Extensions : StartsWithAt(c, ext, d + 1) /\ p = d + 1 + Len(ext)
     /\ c[p] = ":"
     /\ p + 1 <= Len(c)
     /\ c[p + 1] \in Digit}

\* /\.(?:js|ts|tsx|jsx|mjs|cjs|py|rs|go):\d+/.test(content)
HasExtLine(content) == \E d \in 1..Len(content) : ExtColonAt(content, d) # {}

\* content matches /\.(?:js|...):\d+(?::\d+)?$/
EndsWithExtLocation(c) ==
  \E d \in 1..Len(c) : \E p \in ExtColonAt(c, d) :
     LET q == FirstNotIn(c, p + 1, Digit)
     IN  \/ q > Len(c)
         \/ /\ c[q] = ":"
            /\ q + 1 <= Len(c)
            /\ AllIn(c, q + 1, Len(c), Digit)

\* /\([^)]*\.(?:js|...):\d+(?::\d+)?\)/.test(raw)
HasExtLocation(raw) ==
  \E j \in 1..Len(raw) :
     /\ raw[j] = "("
     /\ LET k == FirstIn(raw, j + 1, {")"})
        IN  k <= Len(raw) /\ EndsWithExtLocation(SubSeq(raw, j + 1, k - 1))

\* raw.match(/\(([^)]+)\)/g), each match without its parentheses
RECURSIVE ParenGroups(_)
ParenGroups(raw) ==
  LET j == FirstIn(raw, 1, {"("})
      k == FirstIn(raw, j + 1, {")"})
  IN  IF j > Len(raw) \/ k > Len(raw) THEN <<>>
      ELSE IF k = j + 1 THEN ParenGroups(SubSeq(raw, j + 1, Len(raw)))
      ELSE <<SubSeq(raw, j + 1, k - 1)>> \o ParenGroups(SubSeq(raw, k + 1, Len(raw)))

\* the fallback loop: the first group that is not internal and has an
\* extension followed by a line number; inner is left as it was when none
FallbackInner(raw, inner) ==
  LET groups == ParenGroups(raw)
      ok == {i \in 1..Len(groups) : ~IsInternal(groups[i]) /\ HasExtLine(groups[i])}
  IN  IF ok = {} THEN inner ELSE groups[Min(ok)]

\* inner = atParen ? atParen[1].trim() : null
InnerOf(atParen) == IF atParen # Undefined THEN Trim(atParen) ELSE Undefined

\* if (!inner && /\(...\)/.test(raw)) { fallback loop }
WithFallback(raw, inner) ==
  IF Falsy(inner) /\ HasExtLocation(raw) THEN FallbackInner(raw, inner) ELSE inner

\* the value of `inner` when the "if (inner && ...)" test is reached
NodeInner(raw) == WithFallback(raw, InnerOf(AtParen(raw)))

\* the three-way choice of path, lineNum and column from inner.split(':')
LocationOf(parts) ==
  IF /\ Len(parts) >= 3
     /\ IsDigits(parts[Len(parts)])
     /\ IsDigits(parts[Len(parts) - 1])
  THEN [path |-> Trim(Join(SubSeq(parts, 1, Len(parts) - 2), <<":">>)),
        lineNum |-> ParseInt(parts[Len(parts) - 1]),
        column |-> ParseInt(parts[Len(parts)])]
  ELSE IF Len(parts) >= 2 /\ IsDigits(parts[Len(parts)])
  THEN [path |-> Trim(Join(SubSeq(parts, 1, Len(parts) - 1), <<":">>)),
        lineNum |-> ParseInt(parts[Len(parts)]),
        column |-> NoNumber]
  ELSE [path |-> <<>>, lineNum |-> 0, column |-> NoNumber]

\* const parts = inner.split(':'); path, lineNum, column
ParseLocation(inner) == LocationOf(SplitOn(inner, {":"}))

\* ------------------------------------------------------------------------
\* Frame extractor: the Python-style matcher
\* ------------------------------------------------------------------------
FileQuote == <<"F", "i", "l", "e", " ", "\"">>

QuoteLine == <<"\"", ",", " ", "l", "i", "n", "e", " ">>

\* /File "([^"]+)", line (\d+)/ with the match starting at index s:
\* <<group 1, group 2>>, or Undefined
PyMatchAt(raw, s) ==
  IF StartsWithAt(raw, FileQuote, s)
  THEN LET p == s + Len(FileQuote)
           q == FirstIn(raw, p, {"\""})
           d == q + Len(QuoteLine)
       IN  IF /\ q > p
              /\ StartsWithAt(raw, QuoteLine, q)
              /\ d <= Len(raw)
              /\ raw[d] \in Digit
           THEN <<SubSeq(raw, p, q - 1), SubSeq(raw, d, FirstNotIn(raw, d, Digit) - 1)>>
           ELSE Undefined
  ELSE Undefined

\* raw.match(/File "([^"]+)", line (\d+)/): the groups of the leftmost match
PyMatch(raw) ==
  LET starts == {s \in 1..Len(raw) : PyMatchAt(raw, s) # Undefined}
  IN  IF starts = {} THEN Undefined ELSE PyMatchAt(raw, Min(starts))

\* ------------------------------------------------------------------------
\* Frame extractor: label, per-line candidate, deduplication
\* ------------------------------------------------------------------------
\* path.split(/[/\\]/).pop()
LastSegment(path) ==
  LET seps == {i \in 1..Len(path) : path[i] \in {"/", "\\"}}
  IN  IF seps = {} THEN path ELSE SubSeq(path, Max(seps) + 1, Len(path))

\* s.replace(/\.[^.]+$/, '')
StripExtension(s) ==
  LET dots == {i \in 1..Len(s) : s[i] = "."}
  IN  IF dots # {} /\ Max(dots) < Len(s) THEN SubSeq(s, 1, Max(dots) - 1) ELSE s

\* (path.split(/[/\\]/).pop() || path).replace(/\.[^.]+$/, '') || path
BaseName(path) ==
  LET seg == LastSegment(path)
      stripped == StripExtension(IF seg = <<>> THEN path ELSE seg)
  IN  IF stripped = <<>> THEN path ELSE stripped

\* `${base} line ${lineNum}`
Label(path, lineNum) ==
  BaseName(path) \o <<" ", "l", "i", "n", "e", " ">> \o NumberToString(lineNum)

\* `${path}:${lineNum}`
Key(path, lineNum) == path \o <<":">> \o NumberToString(lineNum)

NoCandidate == [kind |-> "none", file |-> <<>>, line |-> 0, column |-> NoNumber]

\* the Node-style branch once path, lineNum and column are set:
\* if (path && lineNum > 0) { ... }
NodeCandidate(loc) ==
  IF loc.path # <<>> /\ loc.lineNum > 0
  THEN [kind |-> "node", file |-> loc.path, line |-> loc.lineNum, column |-> loc.column]
  ELSE NoCandidate

\* the Python-style branch: if (pyMatch) { path, lineNum }
PythonCandidate(pyMatch) ==
  IF pyMatch # Undefined
  THEN [kind |-> "python", file |-> Trim(pyMatch[1]), line |-> ParseInt(pyMatch[2]),
        column |-> NoNumber]
  ELSE NoCandidate

\* if (inner && !inner.includes('node:') && !inner.includes('node_modules'))
\* { Node-style branch; continue } else the Python-style branch
MatchLine(raw, inner) ==
  IF ~Falsy(inner) /\ ~IsInternal(inner)
  THEN NodeCandidate(ParseLocation(inner))
  ELSE PythonCandidate(PyMatch(raw))

\* what one sanitized line offers to the `seen` test
LineCandidate(raw) == IF raw = <<>> THEN NoCandidate ELSE MatchLine(raw, NodeInner(raw))

\* frames.push({ label, file, line, column })
MakeFrame(c) ==
  [label |-> Label(c.file, c.line), file |-> c.file, line |-> c.line, column |-> c.column]

RECURSIVE ExtractFrames(_, _, _)

\* PushCandidate with the `seen` test left out
PushCandidateNoSeen(c, rest, seen, frames) ==
  IF c.kind = "none"
  THEN ExtractFrames(rest, seen, frames)
  ELSE ExtractFrames(rest, seen, Append(frames, MakeFrame(c)))

\* if (!seen.has(key)) { seen.add(key); frames.push(...) }, then the rest
\* of the lines
PushCandidate(c, rest, seen, frames) ==
  IF c.kind = "none" \/ Key(c.file, c.line) \in seen
  THEN ExtractFrames(rest, seen, frames)
  ELSE ExtractFrames(rest, seen \cup {Key(c.file, c.line)}, Append(frames, MakeFrame(c)))

\* the for loop over the lines, with `seen` and `frames`
ExtractFrames(lines, seen, frames) ==
  IF Len(lines) = 0 THEN frames
  ELSE PushCandidate(LineCandidate(Sanitize(Head(lines))), Tail(lines), seen, frames)

\* ------------------------------------------------------------------------
\* Error signature finder (parseErrorFlow, the reverse loop)
\* ------------------------------------------------------------------------
ErrorWord == <<"E", "r", "r", "o", "r">>

\* the groups of /^(\w+):\s*(.+)$/ on a trimmed line whose leading run of
\* word characters has n characters, or Undefined: the ":" follows the run,
\* the message starts after the whitespace and runs to the end without a
\* line terminator (a trimmed line has no trailing whitespace for \s* to
\* give back)
IdentifierMessageAt(trimmed, n) ==
  IF /\ n >= 1
     /\ n + 1 <= Len(trimmed)
     /\ trimmed[n + 1] = ":"
     /\ FirstNotIn(trimmed, n + 2, WhiteSpace) <= Len(trimmed)
     /\ \A i \in FirstNotIn(trimmed, n + 2, WhiteSpace)..Len(trimmed) :
          trimmed[i] \notin LineTerminator
  THEN <<SubSeq(trimmed, 1, n),
         SubSeq(trimmed, FirstNotIn(trimmed, n + 2, WhiteSpace), Len(trimmed))>>
  ELSE Undefined

IdentifierMessage(trimmed) ==
  IdentifierMessageAt(trimmed, FirstNotIn(trimmed, 1, WordChar) - 1)

\* the identifier matches \w+Error(?:\w+)?
KeepErrorInfix(m) ==
  IF m # Undefined /\ \E p \in 2..Len(m[1]) : StartsWithAt(m[1], ErrorWord, p)
  THEN m ELSE Undefined

\* the identifier matches \w+Error
KeepErrorSuffix(m) ==
  IF m # Undefined /\ Len(m[1]) > Len(ErrorWord) /\ EndsWith(m[1], ErrorWord)
  THEN m ELSE Undefined

\* trimmed.match(/^(\w+Error(?:\w+)?):\s*(.+)$/)
ErrMatchErrorInfix(trimmed) == KeepErrorInfix(IdentifierMessage(trimmed))

\* trimmed.match(/^(\w+Error):\s*(.+)$/)
ErrMatchErrorSuffix(trimmed) == KeepErrorSuffix(IdentifierMessage(trimmed))

\* trimmed.match(/^(\w+):\s*(.+)$/)
ErrMatchBare(trimmed) == IdentifierMessage(trimmed)

\* a || b || c
FirstMatch(a, b, c) == IF a # Undefined THEN a ELSE IF b # Undefined THEN b ELSE c

\* ErrMatch without the bare `Identifier: message` alternative
ErrMatchErrorOnly(trimmed) ==
  FirstMatch(ErrMatchErrorInfix(trimmed), ErrMatchErrorSuffix(trimmed), Undefined)

\* the || chain of the three matches
ErrMatch(trimmed) ==
  FirstMatch(ErrMatchErrorInfix(trimmed), ErrMatchErrorSuffix(trimmed), ErrMatchBare(trimmed))

MaxErrorMessage == 80

\* errMatch[2] kept whole
WholeMessage(message) == message

\* errMatch[2].slice(0, 80)
CutMessage(message) ==
  SubSeq(message, 1, IF Len(message) < MaxErrorMessage THEN Len(message) ELSE MaxErrorMessage)

RECURSIVE FindSignature(_, _)

\* the body of the reverse loop for line i: skip a blank line, take the
\* signature and break, or go on to the line before
SignatureAt(lines, i, trimmed, errMatch) ==
  IF trimmed = <<>> THEN FindSignature(lines, i - 1)
  ELSE IF /\ errMatch # Undefined
          /\ ~StartsWithAt(trimmed, <<"a", "t", " ">>, 1)
          /\ ~StartsWithAt(trimmed, <<"F", "i", "l", "e", " ">>, 1)
  THEN [errorType |-> errMatch[1], errorMessage |-> CutMessage(errMatch[2])]
  ELSE FindSignature(lines, i - 1)

\* for (let i = lines.length - 1; i >= 0; i--) { ... break; }, the raw
\* lines being trimmed only; i is the 1-based index of the line looked at
FindSignature(lines, i) ==
  IF i < 1 THEN [errorType |-> Undefined, errorMessage |-> Undefined]
  ELSE SignatureAt(lines, i, Trim(lines[i]), ErrMatch(Trim(lines[i])))

\* ------------------------------------------------------------------------
\* parseErrorFlow
\* ------------------------------------------------------------------------
\* the frames without frames.reverse()
FramesUnreversed(lines) == ExtractFrames(lines, {}, <<>>)

\* the frames cut to 8 after frames.reverse()
FramesCapped(lines) ==
  SubSeq(Reverse(ExtractFrames(lines, {}, <<>>)), 1,
         IF Len(ExtractFrames(lines, {}, <<>>)) < 8
         THEN Len(ExtractFrames(lines, {}, <<>>)) ELSE 8)

\* the frame loop and frames.reverse()
FramesOf(lines) == Reverse(ExtractFrames(lines, {}, <<>>))

\* return { errorType, errorMessage, frames }
MakeFlow(sig, frames) ==
  [errorType |-> sig.errorType, errorMessage |-> sig.errorMessage, frames |-> frames]

\* parseErrorFlow once the log is split into lines
FlowOfLines(lines) == MakeFlow(FindSignature(lines, Len(lines)), FramesOf(lines))

parseErrorFlow(text) == FlowOfLines(SplitLines(text))

\* ------------------------------------------------------------------------
\* buildMermaidFlowchart
\* ------------------------------------------------------------------------
MaxDiagramFrames == 8

MaxErrorLabel == 50

\* s.replace(/[class]/g, by)
ReplaceChars(s, class, by) == [i \in 1..Len(s) |-> IF s[i] \in class THEN by ELSE s[i]]

\* s.replace(/"/g, "'")
ReplaceQuotes(s) == ReplaceChars(s, {"\""}, "'")

\* label.replace(/"/g, "'").replace(/[\[\]()]/g, ' ')
SafeLabel(label) == ReplaceChars(ReplaceQuotes(label), {"[", "]", "(", ")"}, " ")

\* `F${i}`, i counted from 0
NodeId(i) == <<"F">> \o NumberToString(i)

\* FrameList taking the last 8 frames: flow.frames.slice(-8)
FrameListTail(f) ==
  SubSeq(f.frames,
         IF Len(f.frames) < MaxDiagramFrames THEN 1 ELSE Len(f.frames) - MaxDiagramFrames + 1,
         Len(f.frames))

\* flow.frames.slice(0, 8)
FrameList(f) ==
  SubSeq(f.frames, 1, IF Len(f.frames) < MaxDiagramFrames THEN Len(f.frames) ELSE MaxDiagramFrames)

\* FrameLabel with the column on every frame that has one
FrameLabelEveryColumn(fr, isFailureFrame) ==
  IF fr.column # NoNumber
  THEN fr.label \o <<",", " ", "c", "o", "l", " ">> \o NumberToString(fr.column)
  ELSE fr.label

\* label of the frame fr, the failure frame (isFailureFrame) or another
FrameLabel(fr, isFailureFrame) ==
  IF isFailureFrame /\ fr.column # NoNumber
  THEN fr.label \o <<",", " ", "c", "o", "l", " ">> \o NumberToString(fr.column)
  ELSE fr.label

\* the visible text of the node of frameList[i + 1]
FrameNodeText(frameList, i) == SafeLabel(FrameLabel(frameList[i + 1], i = Len(frameList) - 1))

\* `  ${id}["${text}"]`
NodeLine(id, text) == <<" ", " ">> \o id \o <<"[", "\"">> \o text \o <<"\"", "]">>

\* `  ${prev} --> ${id}`
EdgeLine(prev, id) == <<" ", " ">> \o prev \o <<" ", "-", "-", ">", " ">> \o id

StartId == <<"S", "t", "a", "r", "t">>

ErrorId == <<"E", "r", "r", "o", "r">>

\* the two lines pushed for frameList[i + 1], for every i from 0
RECURSIVE FrameLines(_, _)
FrameLines(frameList, i) ==
  IF i >= Len(frameList) THEN <<>>
  ELSE <<NodeLine(NodeId(i), FrameNodeText(frameList, i)),
         EdgeLine(IF i = 0 THEN StartId ELSE NodeId(i - 1), NodeId(i))>>
       \o FrameLines(frameList, i + 1)

\* errLabel without the 'Error' default
ErrLabelNoDefault(f) == f.errorType

\* errLabel
ErrLabel(f) ==
  IF ~Falsy(f.errorType)
  THEN f.errorType \o (IF ~Falsy(f.errorMessage)
                       THEN <<":", " ">> \o ReplaceQuotes(f.errorMessage)
                       ELSE <<>>)
  ELSE ErrorId

\* safeErr = errLabel.slice(0, 50).replace(/"/g, "'")
SafeErr(errLabel) ==
  ReplaceQuotes(SubSeq(errLabel, 1,
                       IF Len(errLabel) < MaxErrorLabel THEN Len(errLabel) ELSE MaxErrorLabel))

ErrorNodeText(f) == SafeErr(ErrLabel(f))

\* the `lines` array when it is joined
LinesOf(frameList, f) ==
  << <<"f", "l", "o", "w", "c", "h", "a", "r", "t", " ", "T", "B">>,
     <<" ", " ", "S", "t", "a", "r", "t", "(", "[", "R", "u", "n", "]", ")">> >>
  \o FrameLines(frameList, 0)
  \o << NodeLine(ErrorId, ErrorNodeText(f)),
        EdgeLine(IF Len(frameList) = 0 THEN StartId ELSE NodeId(Len(frameList) - 1), ErrorId) >>

MermaidLines(f) == LinesOf(FrameList(f), f)

buildMermaidFlowchart(f) == Join(MermaidLines(f), <<"\n">>)

\* ------------------------------------------------------------------------
\* extractFileReferences
\* ------------------------------------------------------------------------
\* one match of a reference pattern: groups 1 and 2 and the index of its
\* last character; end = 0 when the pattern does not match
NoMatch == [path |-> <<>>, line |-> <<>>, end |-> 0]

\* the text x between a "(" and the first ")" after it, which is at index c,
\* matched by ([^)]+):(\d+):?\d* : the greedy group 1 runs to the last ":"
\* that digits follow up to the end of x, and only when x ends with ":" to
\* the ":" before it, digits standing between the two
NodeRefSplit(x, c, colons) ==
  IF colons = {} THEN NoMatch
  ELSE IF Max(colons) < Len(x)
  THEN IF Max(colons) > 1 /\ AllIn(x, Max(colons) + 1, Len(x), Digit)
       THEN [path |-> SubSeq(x, 1, Max(colons) - 1),
             line |-> SubSeq(x, Max(colons) + 1, Len(x)),
             end |-> c]
       ELSE NoMatch
  ELSE IF colons \ {Len(x)} = {} THEN NoMatch
  ELSE IF /\ Max(colons \ {Len(x)}) > 1
          /\ Max(colons \ {Len(x)}) + 1 <= Len(x) - 1
          /\ AllIn(x, Max(colons \ {Len(x)}) + 1, Len(x) - 1, Digit)
  THEN [path |-> SubSeq(x, 1, Max(colons \ {Len(x)}) - 1),
        line |-> SubSeq(x, Max(colons \ {Len(x)}) + 1, Len(x) - 1),
        end |-> c]
  ELSE NoMatch

NodeRefIn(x, c) == NodeRefSplit(x, c, {i \in 1..Len(x) : x[i] = ":"})

\* nodeRe = /\(([^)]+):(\d+):?\d*\)/ with the match starting at index s
NodeRefAt(text, s) ==
  IF text[s] = "(" /\ FirstIn(text, s + 1, {")"}) <= Len(text)
  THEN NodeRefIn(SubSeq(text, s + 1, FirstIn(text, s + 1, {")"}) - 1),
                 FirstIn(text, s + 1, {")"}))
  ELSE NoMatch

PyRefOf(s, groups) ==
  IF groups = Undefined THEN NoMatch
  ELSE [path |-> groups[1], line |-> groups[2],
        end |-> s + Len(FileQuote) + Len(groups[1]) + Len(QuoteLine) + Len(groups[2]) - 1]

\* pyRe = /File "([^"]+)", line (\d+)/ with the match starting at index s
PyRefAt(text, s) == PyRefOf(s, PyMatchAt(text, s))

\* (?:js|ts|tsx|jsx|py|rs|go) of genericRe
GenericExtensions ==
  {<<"j", "s">>, <<"t", "s">>, <<"t", "s", "x">>, <<"j", "s", "x">>,
   <<"p", "y">>, <<"r", "s">>, <<"g", "o">>}

\* the indices of the ":" of \.(?:js|ts|tsx|jsx|py|rs|go):\d with the "." at d
GenericColonAt(text, d) ==
  {p \in (d + 1)..Len(text) :
     /\ text[d] = "."
     /\ \E ext \in GenericExtensions : StartsWithAt(text, ext, d + 1) /\ p = d + 1 + Len(ext)
     /\ text[p] = ":"
     /\ p + 1 <= Len(text)
     /\ text[p + 1] \in Digit}

\* the greedy [^\s]+ gives back to the last "." of its run that an
\* extension, ":" and a digit follow
GenericRefDots(text, s, dots) ==
  IF dots = {} THEN NoMatch
  ELSE [path |-> SubSeq(text, s, Max(GenericColonAt(text, Max(dots))) - 1),
        line |-> SubSeq(text, Max(GenericColonAt(text, Max(dots))) + 1,
                        FirstNotIn(text, Max(GenericColonAt(text, Max(dots))) + 1, Digit) - 1),
        end |-> FirstNotIn(text, Max(GenericColonAt(text, Max(dots))) + 1, Digit) - 1]

\* genericRe = /([A-Za-z]:[\\/][^\s]+\.(?:js|ts|tsx|jsx|py|rs|go)):(\d+)/
\* with the match starting at index s
GenericRefAt(text, s) ==
  IF /\ s + 3 <= Len(text)
     /\ text[s] \in Letter
     /\ text[s + 1] = ":"
     /\ text[s + 2] \in {"\\", "/"}
  THEN GenericRefDots(text, s,
         {d \in (s + 4)..(FirstIn(text, s + 3, WhiteSpace) - 1) : GenericColonAt(text, d) # {}})
  ELSE NoMatch

RefAt(pattern, text, s) ==
  IF pattern = "node" THEN NodeRefAt(text, s)
  ELSE IF pattern = "python" THEN PyRefAt(text, s)
  ELSE GenericRefAt(text, s)

RECURSIVE RefMatches(_, _, _)

RefMatchesAfter(pattern, text, m) == <<m>> \o RefMatches(pattern, text, m.end + 1)

RefMatchesFrom(pattern, text, starts) ==
  IF starts = {} THEN <<>>
  ELSE RefMatchesAfter(pattern, text, RefAt(pattern, text, Min(starts)))

\* while ((m = re.exec(log)) !== null): the matches of a global pattern from
\* index pos on, each search resuming after the match before
RefMatches(pattern, text, pos) ==
  RefMatchesFrom(pattern, text, {s \in pos..Len(text) : RefAt(pattern, text, s).end > 0})

RECURSIVE PushRefs(_, _, _)

\* if (!seen.has(key)) { seen.add(key); refs.push({ path, line }); }
PushRef(path, line, acc) ==
  IF Key(path, line) \in acc.seen THEN acc
  ELSE [seen |-> acc.seen \cup {Key(path, line)},
        refs |-> Append(acc.refs, [path |-> path, line |-> line])]

\* the body of one while loop for the match m: the Node-style loop keeps a
\* reference with line > 0 whose path is not internal, the other two keep all
PushMatch(pattern, path, line, acc) ==
  IF pattern = "node" /\ ~(line > 0 /\ ~IsInternal(path)) THEN acc
  ELSE PushRef(path, line, acc)

PushRefs(pattern, matches, acc) ==
  IF Len(matches) = 0 THEN acc
  ELSE PushRefs(pattern, Tail(matches),
                PushMatch(pattern, Trim(Head(matches).path), ParseInt(Head(matches).line), acc))

MaxReferences == 5

\* the three loops in turn
AllRefs(text) ==
  PushRefs("generic", RefMatches("generic", text, 1),
    PushRefs("python", RefMatches("python", text, 1),
      PushRefs("node", RefMatches("node", text, 1), [seen |-> {}, refs |-> <<>>])))

\* refs.slice(0, 5)
FirstRefs(refs) ==
  SubSeq(refs, 1, IF Len(refs) < MaxReferences THEN Len(refs) ELSE MaxReferences)

extractFileReferences(text) == FirstRefs(AllRefs(text).refs)

\* ------------------------------------------------------------------------
\* explainLog: settings, the texts it writes and the built-in heuristics
\* ------------------------------------------------------------------------
UpperCase ==
  <<"A", "B", "C", "D", "E", "F", "G", "H", "I", "J", "K", "L", "M", "N",
    "O", "P", "Q", "R", "S", "T", "U", "V", "W", "X", "Y", "Z">>

LowerCase ==
  <<"a", "b", "c", "d", "e", "f", "g", "h", "i", "j", "k", "l", "m", "n",
    "o", "p", "q", "r", "s", "t", "u", "v", "w", "x", "y", "z">>

\* String.prototype.toLowerCase
ToLowerCase(s) ==
  [i \in 1..Len(s) |->
     IF \E k \in 1..Len(UpperCase) : UpperCase[k] = s[i]
     THEN LowerCase[CHOOSE k \in 1..Len(UpperCase) : UpperCase[k] = s[i]]
     ELSE s[i]]

OpenAI ==
  <<"o", "p", "e", "n", "a", "i">>

Gemini ==
  <<"g", "e", "m", "i", "n", "i">>

Host ==
  <<"h", "o", "s", "t">>

\* (config.get<string>('provider') ?? 'openai').toLowerCase()
ProviderOf(setting) == IF setting = Undefined THEN OpenAI ELSE ToLowerCase(setting)

\* (config.get<string>('<provider>.apiKey') ?? '').trim()
ApiKeyOf(setting) == IF setting = Undefined THEN <<>> ELSE Trim(setting)

\* channel.appendLine('=== LogBuddy Explanation ===')
HeaderLine ==
  <<"=", "=", "=", " ", "L", "o", "g", "B", "u", "d", "d", "y", " ", "E",
    "x", "p", "l", "a", "n", "a", "t", "i", "o", "n", " ", "=", "=", "=">>

UsingHostLine ==
  <<"U", "s", "i", "n", "g", " ", "e", "d", "i", "t", "o", "r", " ", "h",
    "o", "s", "t", " ", "m", "o", "d", "e", "l", " ", "(", "e", ".", "g",
    ".", " ", "C", "u", "r", "s", "o", "r", ")", ".", ".", ".">>

CallingGeminiLine ==
  <<"C", "a", "l", "l", "i", "n", "g", " ", "G", "e", "m", "i", "n", "i",
    " ", "t", "o", " ", "e", "x", "p", "l", "a", "i", "n", " ", "t", "e",
    "r", "m", "i", "n", "a", "l", " ", "o", "u", "t", "p", "u", "t", ".",
    ".", ".">>

NoGeminiKeyLine ==
  <<"L", "o", "g", "B", "u", "d", "d", "y", " ", "p", "r", "o", "v", "i",
    "d", "e", "r", " ", "i", "s", " ", "\"", "g", "e", "m", "i", "n", "i",
    "\"", " ", "b", "u", "t", " ", "n", "o", " ", "G", "e", "m", "i", "n",
    "i", " ", "A", "P", "I", " ", "k", "e", "y", " ", "i", "s", " ", "s",
    "e", "t", ".", " ", "S", "e", "t", " ", "l", "o", "g", "B", "u", "d",
    "d", "y", ".", "g", "e", "m", "i", "n", "i", ".", "a", "p", "i", "K",
    "e", "y", " ", "i", "n", " ", "S", "e", "t", "t", "i", "n", "g", "s",
    ".">>

CallingOpenAILine ==
  <<"C", "a", "l", "l", "i", "n", "g", " ", "O", "p", "e", "n", "A", "I",
    " ", "t", "o", " ", "e", "x", "p", "l", "a", "i", "n", " ", "t", "e",
    "r", "m", "i", "n", "a", "l", " ", "o", "u", "t", "p", "u", "t", ".",
    ".", ".">>

NoOpenAIKeyLine ==
  <<"L", "o", "g", "B", "u", "d", "d", "y", " ", "p", "r", "o", "v", "i",
    "d", "e", "r", " ", "i", "s", " ", "\"", "o", "p", "e", "n", "a", "i",
    "\"", " ", "b", "u", "t", " ", "n", "o", " ", "O", "p", "e", "n", "A",
    "I", " ", "A", "P", "I", " ", "k", "e", "y", " ", "i", "s", " ", "s",
    "e", "t", ".", " ", "S", "e", "t", " ", "l", "o", "g", "B", "u", "d",
    "d", "y", ".", "o", "p", "e", "n", "a", "i", ".", "a", "p", "i", "K",
    "e", "y", " ", "i", "n", " ", "S", "e", "t", "t", "i", "n", "g", "s",
    ".">>

FallingBackLine ==
  <<"F", "a", "l", "l", "i", "n", "g", " ", "b", "a", "c", "k", " ", "t",
    "o", " ", "b", "u", "i", "l", "t", "-", "i", "n", " ", "h", "e", "u",
    "r", "i", "s", "t", "i", "c", "s", ".">>

HostUnavailableLine ==
  <<"H", "o", "s", "t", " ", "l", "a", "n", "g", "u", "a", "g", "e", " ",
    "m", "o", "d", "e", "l", " ", "A", "P", "I", " ", "(", "v", "s", "c",
    "o", "d", "e", ".", "l", "m", ")", " ", "i", "s", " ", "n", "o", "t",
    " ", "a", "v", "a", "i", "l", "a", "b", "l", "e", " ", "i", "n", " ",
    "t", "h", "i", "s", " ", "e", "d", "i", "t", "o", "r", ".">>

HostNoMessageLine ==
  <<"H", "o", "s", "t", " ", "L", "a", "n", "g", "u", "a", "g", "e", "M",
    "o", "d", "e", "l", "C", "h", "a", "t", "M", "e", "s", "s", "a", "g",
    "e", " ", "A", "P", "I", " ", "n", "o", "t", " ", "a", "v", "a", "i",
    "l", "a", "b", "l", "e", ".", " ", "U", "s", "e", " ", "p", "r", "o",
    "v", "i", "d", "e", "r", " ", "\"", "g", "e", "m", "i", "n", "i", "\"",
    " ", "o", "r", " ", "\"", "o", "p", "e", "n", "a", "i", "\"", " ", "i",
    "n", "s", "t", "e", "a", "d", ".">>

HostNoModelLine ==
  <<"N", "o", " ", "h", "o", "s", "t", " ", "l", "a", "n", "g", "u", "a",
    "g", "e", " ", "m", "o", "d", "e", "l", " ", "a", "v", "a", "i", "l",
    "a", "b", "l", "e", ".", " ", "I", "n", "s", "t", "a", "l", "l", " ",
    "C", "o", "p", "i", "l", "o", "t", " ", "o", "r", " ", "u", "s", "e",
    " ", "p", "r", "o", "v", "i", "d", "e", "r", " ", "\"", "o", "p", "e",
    "n", "a", "i", "\"", " ", "/", " ", "\"", "g", "e", "m", "i", "n", "i",
    "\"", " ", "w", "i", "t", "h", " ", "a", "n", " ", "A", "P", "I", " ",
    "k", "e", "y", ".">>

\* `Host model request failed: ${msg}`, the message left out
HostFailedLine ==
  <<"H", "o", "s", "t", " ", "m", "o", "d", "e", "l", " ", "r", "e", "q",
    "u", "e", "s", "t", " ", "f", "a", "i", "l", "e", "d", ":", " ">>

\* `OpenAI API error (${res.statusCode}): ${data.slice(0, 200)}`, up to the status
OpenAIStatusLine ==
  <<"O", "p", "e", "n", "A", "I", " ", "A", "P", "I", " ", "e", "r", "r",
    "o", "r", " ", "(">>

\* `Gemini API error (${res.statusCode}): ${data.slice(0, 200)}`, up to the status
GeminiStatusLine ==
  <<"G", "e", "m", "i", "n", "i", " ", "A", "P", "I", " ", "e", "r", "r",
    "o", "r", " ", "(">>

\* `LogBuddy LLM request failed: ${err.message}`, the message left out
OpenAIFailedLine ==
  <<"L", "o", "g", "B", "u", "d", "d", "y", " ", "L", "L", "M", " ", "r",
    "e", "q", "u", "e", "s", "t", " ", "f", "a", "i", "l", "e", "d", ":",
    " ">>

\* `LogBuddy Gemini request failed: ${err.message}`, the message left out
GeminiFailedLine ==
  <<"L", "o", "g", "B", "u", "d", "d", "y", " ", "G", "e", "m", "i", "n",
    "i", " ", "r", "e", "q", "u", "e", "s", "t", " ", "f", "a", "i", "l",
    "e", "d", ":", " ">>

SyntaxErrorColon ==
  <<"S", "y", "n", "t", "a", "x", "E", "r", "r", "o", "r", ":">>

InvalidToken ==
  <<"I", "n", "v", "a", "l", "i", "d", " ", "o", "r", " ", "u", "n", "e",
    "x", "p", "e", "c", "t", "e", "d", " ", "t", "o", "k", "e", "n">>

TracebackHead ==
  <<"T", "r", "a", "c", "e", "b", "a", "c", "k", " ", "(", "m", "o", "s",
    "t", " ", "r", "e", "c", "e", "n", "t", " ", "c", "a", "l", "l", " ",
    "l", "a", "s", "t", ")">>

CannotReadProperties ==
  <<"T", "y", "p", "e", "E", "r", "r", "o", "r", ":", " ", "C", "a", "n",
    "n", "o", "t", " ", "r", "e", "a", "d", " ", "p", "r", "o", "p", "e",
    "r", "t", "i", "e", "s", " ", "o", "f", " ", "u", "n", "d", "e", "f",
    "i", "n", "e", "d">>

CannotReadProperty ==
  <<"T", "y", "p", "e", "E", "r", "r", "o", "r", ":", " ", "C", "a", "n",
    "n", "o", "t", " ", "r", "e", "a", "d", " ", "p", "r", "o", "p", "e",
    "r", "t", "y", " ", "o", "f", " ", "u", "n", "d", "e", "f", "i", "n",
    "e", "d">>

ErrorColon ==
  <<"e", "r", "r", "o", "r", ":">>

CompilationTerminated ==
  <<"c", "o", "m", "p", "i", "l", "a", "t", "i", "o", "n", " ", "t", "e",
    "r", "m", "i", "n", "a", "t", "e", "d">>

\* the texts of the built-in heuristics, each stood for by the beginning of its first line
SyntaxErrorText ==
  <<"T", "h", "i", "s", " ", "i", "s", " ", "a", " ", "N", "o", "d", "e",
    ".", "j", "s", " ", "S", "y", "n", "t", "a", "x", "E", "r", "r", "o",
    "r", ":", " ", "\"", "I", "n", "v", "a", "l", "i", "d", " ", "o", "r",
    " ", "u", "n", "e", "x", "p", "e", "c", "t", "e", "d", " ", "t", "o",
    "k", "e", "n", "\"", ".">>

TracebackText ==
  <<"I", " ", "s", "e", "e", " ", "a", " ", "P", "y", "t", "h", "o", "n",
    " ", "t", "r", "a", "c", "e", "b", "a", "c", "k", ".">>

UndefinedPropertyText ==
  <<"T", "h", "i", "s", " ", "l", "o", "o", "k", "s", " ", "l", "i", "k",
    "e", " ", "a", " ", "J", "a", "v", "a", "S", "c", "r", "i", "p", "t",
    "/", "T", "y", "p", "e", "S", "c", "r", "i", "p", "t", " ", "T", "y",
    "p", "e", "E", "r", "r", "o", "r", ":", " ", "y", "o", "u", " ", "a",
    "r", "e", " ", "r", "e", "a", "d", "i", "n", "g", " ", "a", " ", "p",
    "r", "o", "p", "e", "r", "t", "y", " ", "o", "n">>

CompilationText ==
  <<"T", "h", "i", "s", " ", "l", "o", "o", "k", "s", " ", "l", "i", "k",
    "e", " ", "a", " ", "c", "o", "m", "p", "i", "l", "a", "t", "i", "o",
    "n", " ", "e", "r", "r", "o", "r", " ", "(", "p", "o", "s", "s", "i",
    "b", "l", "y", " ", "C", "/", "C", "+", "+", " ", "o", "r", " ", "a",
    " ", "c", "o", "m", "p", "i", "l", "e", "d", " ", "l", "a", "n", "g",
    "u", "a", "g", "e", ")", ".">>

NoRuleText ==
  <<"I", " ", "c", "a", "p", "t", "u", "r", "e", "d", " ", "y", "o", "u",
    "r", " ", "r", "e", "c", "e", "n", "t", " ", "t", "e", "r", "m", "i",
    "n", "a", "l", " ", "o", "u", "t", "p", "u", "t", ",", " ", "b", "u",
    "t", " ", "t", "h", "e", "r", "e", " ", "i", "s", " ", "n", "o", " ",
    "s", "p", "e", "c", "i", "f", "i", "c", " ", "r", "u", "l", "e", " ",
    "f", "o", "r", " ", "t", "h", "i", "s", " ", "p", "a", "t", "t", "e",
    "r", "n", " ", "y", "e", "t", ".">>

\* /SyntaxError:\s+Invalid or unexpected token/.test(text)
HasInvalidToken(text) ==
  \E at \in 1..Len(text) :
    /\ StartsWithAt(text, SyntaxErrorColon, at)
    /\ FirstNotIn(text, at + Len(SyntaxErrorColon), WhiteSpace) > at + Len(SyntaxErrorColon)
    /\ StartsWithAt(text, InvalidToken, FirstNotIn(text, at + Len(SyntaxErrorColon), WhiteSpace))

\* the chain of rules after the LLM part of explainLog
Heuristics(text) ==
  IF HasInvalidToken(text) THEN SyntaxErrorText
  ELSE IF Includes(text, TracebackHead) THEN TracebackText
  ELSE IF Includes(text, CannotReadProperties) \/ Includes(text, CannotReadProperty)
  THEN UndefinedPropertyText
  ELSE IF Includes(text, ErrorColon) /\ Includes(text, CompilationTerminated)
  THEN CompilationText
  ELSE NoRuleText

MaxRelevantLines == 400

\* lines.slice(-400)
LastLines(lines) ==
  SubSeq(lines, IF Len(lines) > MaxRelevantLines THEN Len(lines) - MaxRelevantLines + 1 ELSE 1,
         Len(lines))

\* log.split(/\r?\n/).slice(-400).join('\n')
extractRelevantChunk(text) == Join(LastLines(SplitLines(text)), <<"\n">>)

\* ------------------------------------------------------------------------
\* The logs the parser is run on
\* ------------------------------------------------------------------------
\* Node-style frame with a column
NodeFrameLine ==
  <<"a", "t", " ", "f", " ", "(", "a", ".", "j", "s", ":", "1", "2", ":",
   "5", ")">>

\* the same (path, line) again, another column
NodeFrameAgainLine ==
  <<"a", "t", " ", "g", " ", "(", "a", ".", "j", "s", ":", "1", "2", ":",
   "7", ")">>

\* Node-style frame without a column, CRLF line end
NodeFrameNoColumnLine ==
  <<"a", "t", " ", "h", " ", "(", "b", ".", "t", "s", ":", "8", ")",
   "\r">>

\* Python-style reference to the pair of NodeFrameLine
PythonFrameSameLine ==
  <<"F", "i", "l", "e", " ", "\"", "a", ".", "j", "s", "\"", ",", " ",
   "l", "i", "n", "e", " ", "1", "2">>

\* Python-style frame, indented, line number with a leading zero
PythonFrameLine ==
  <<" ", " ", "F", "i", "l", "e", " ", "\"", "c", ".", "p", "y", "\"",
   ",", " ", "l", "i", "n", "e", " ", "0", "3">>

\* Python-style reference with line 0
PythonLineZeroLine ==
  <<"F", "i", "l", "e", " ", "\"", "x", ".", "p", "y", "\"", ",", " ",
   "l", "i", "n", "e", " ", "0">>

\* Python-style reference whose path is blank
PythonBlankPathLine ==
  <<"F", "i", "l", "e", " ", "\"", " ", "\"", ",", " ", "l", "i", "n",
   "e", " ", "3">>

\* Python-style reference into node_modules
PythonModulesLine ==
  <<"F", "i", "l", "e", " ", "\"", "n", "o", "d", "e", "_", "m", "o", "d",
   "u", "l", "e", "s", "/", "p", ".", "p", "y", "\"", ",", " ", "l", "i",
   "n", "e", " ", "4">>

\* Node-style group of a runtime-internal frame
NodeInternalLine ==
  <<"a", "t", " ", "r", " ", "(", "n", "o", "d", "e", ":", "i", "/", "m",
   ":", "1", "0", "0", ":", "5", ")">>

\* no "at": the fallback scan skips the first group
FallbackLine ==
  <<"(", "n", "o", "d", "e", "_", "m", "o", "d", "u", "l", "e", "s", "/",
   "y", ".", "j", "s", ":", "3", ")", " ", "(", "d", ".", "g", "o", ":",
   "7", ":", "2", ")">>

\* Node-style group with line 0
NodeLineZeroLine ==
  <<"a", "t", " ", "k", " ", "(", "e", ".", "j", "s", ":", "0", ":", "1",
   ")">>

\* Node-style group that is no location
NativeLine ==
  <<"a", "t", " ", "n", " ", "(", "n", "a", "t", "i", "v", "e", ")">>

\* error line with quotes, parentheses and brackets
TypeErrorLine ==
  <<"T", "y", "p", "e", "E", "r", "r", "o", "r", ":", " ", "b", "a", "d",
   " ", "(", "x", ")", " ", "\"", "q", "\"", " ", "[", "1", "]">>

\* bare Identifier: message line
NoteLine ==
  <<"N", "o", "t", "e", ":", " ", "c", "o", "n", "t", "i", "n", "u", "i",
   "n", "g">>

\* error line wrapped in SGR sequences
AnsiErrorLine ==
  <<ESC, "[", "3", "1", "m", "K", "e", "y", "E", "r", "r", "o", "r", ":",
   " ", "'", "x", "'", ESC, "[", "0", "m">>

\* error line with SGR sequences inside the message
AnsiInsideErrorLine ==
  <<"V", "a", "l", "u", "e", "E", "r", "r", "o", "r", ":", " ", ESC, "[",
   "1", "m", "b", "a", "d", ESC, "[", "0", "m", " ", "v">>

\* NodeFrameLine wrapped in SGR sequences
AnsiFrameLine ==
  <<ESC, "[", "1", "m", "a", "t", " ", "f", " ", "(", "a", ".", "j", "s",
   ":", "1", "2", ":", "5", ")", ESC, "[", "0", "m">>

\* a valid Node-style group and a Python-style reference on one line
NodeThenPythonLine ==
  <<"a", "t", " ", "f", " ", "(", "a", ".", "j", "s", ":", "1", "2", ":",
   "5", ")", " ", "F", "i", "l", "e", " ", "\"", "c", ".", "p", "y", "\"",
   ",", " ", "l", "i", "n", "e", " ", "3">>

\* a Node-style group that is no location, then a Python-style reference
NativeThenPythonLine ==
  <<"a", "t", " ", "n", " ", "(", "n", "a", "t", "i", "v", "e", ")", " ",
   "F", "i", "l", "e", " ", "\"", "c", ".", "p", "y", "\"", ",", " ", "l",
   "i", "n", "e", " ", "3">>

\* blank line
BlankLine ==
  <<" ", " ">>

LineMenu ==
  {NodeFrameLine, NodeFrameAgainLine, NodeFrameNoColumnLine,
   PythonFrameSameLine, PythonFrameLine, PythonLineZeroLine,
   PythonBlankPathLine, PythonModulesLine, NodeInternalLine,
   FallbackLine, NodeLineZeroLine, NativeLine, TypeErrorLine, NoteLine,
   AnsiErrorLine, AnsiInsideErrorLine, AnsiFrameLine,
   NodeThenPythonLine, NativeThenPythonLine, BlankLine}

\* longest short log, in lines
MaxLines == 2

\* deepest stack trace, in frames
MaxStack == 10

\* longest error message, in characters
MaxMessage == 82

\* every log of 1..MaxLines lines of the menu
ShortLogs ==
  {Join(ls, <<"\n">>) : ls \in UNION {[1..n -> LineMenu] : n \in 1..MaxLines}}

\* `at f (m<i>.js:<i>:3)`
StackNodeLine(i) ==
  <<"a", "t", " ", "f", " ", "(", "m">> \o NumberToString(i) \o <<".", "j", "s", ":">>
  \o NumberToString(i) \o <<":", "3", ")">>

\* `File "m<i>.py", line <i>`
StackPythonLine(i) ==
  <<"F", "i", "l", "e", " ", "\"", "m">> \o NumberToString(i)
  \o <<".", "p", "y", "\"", ",", " ", "l", "i", "n", "e", " ">> \o NumberToString(i)

StackStyles == {"node", "python", "mixed", "repeat"}

\* a stack trace of n distinct frames (innermost first) and the error line;
\* style "repeat" names the innermost frame once more at the end of the stack
StackLog(n, style) ==
  LET frameLine(i) ==
        IF style = "python" \/ (style = "mixed" /\ i % 2 = 0)
        THEN StackPythonLine(i) ELSE StackNodeLine(i)
      stack == [i \in 1..n |-> frameLine(i)]
  IN  Join(stack \o (IF style = "repeat" /\ n >= 1 THEN <<StackNodeLine(1)>> ELSE <<>>)
                 \o <<TypeErrorLine>>, <<"\n">>)

StackLogs == {StackLog(n, style) : <<n, style>> \in (0..MaxStack) \X StackStyles}

\* a message of k characters with a quote, a parenthesis or a bracket now and then
MessageText(k) ==
  [i \in 1..k |-> IF i % 7 = 0 THEN "\"" ELSE IF i % 5 = 0 THEN "(" ELSE IF i % 11 = 0 THEN "]"
                  ELSE "x"]

\* one frame and an error line whose message has k characters
MessageLog(k) ==
  Join(<<NodeFrameLine, <<"R", "a", "n", "g", "e", "E", "r", "r", "o", "r", ":", " ">> \o MessageText(k)>>,
       <<"\n">>)

MessageLogs == {MessageLog(k) : k \in 0..MaxMessage}

Logs == ShortLogs \cup StackLogs \cup MessageLogs

\* ------------------------------------------------------------------------
\* The extension: terminals, settings, explain invocations, output channel
\* ------------------------------------------------------------------------
Terminals == {"t1", "t2"}

\* vscode.window.activeTerminal is undefined
NoTerminal == "none"

\* the explainLastRun invocations that may be in progress at once
Calls == {1, 2}

NoResponse == [kind |-> "none", text |-> <<>>]

IdleCall ==
  [pc |-> "idle", log |-> <<>>, refs |-> <<>>, response |-> NoResponse, explanation |-> <<>>]

NoEffects == [invoked |-> "none", calls |-> {}]

\* the settings the model starts explainLog with when none matter
DefaultConfig ==
  [provider |-> Undefined, useLLM |-> TRUE, openaiKey |-> <<>>, geminiKey |-> <<>>]

\* the extension right after activate, with nothing written yet
Activated ==
  /\ activated = TRUE
  /\ terminalBuffers = [t \in Terminals |-> Undefined]
  /\ written = [t \in Terminals |-> <<>>]
  /\ explains = [i \in Calls |-> IdleCall]
  /\ channel = <<>>
  /\ effects = NoEffects

\* ------------------------------------------------------------------------
\* The parse-and-render pass of one invocation (visualizeLastRun)
\* ------------------------------------------------------------------------
EmptyFlow == [errorType |-> Undefined, errorMessage |-> Undefined, frames |-> <<>>]

Init ==
  /\ log \in Logs
  /\ pc = "start"
  /\ flow = EmptyFlow
  /\ mermaidCode = <<>>
  /\ Activated
  /\ activeTerminal = NoTerminal
  /\ config = DefaultConfig

\* const flow = parseErrorFlow(log)
CallParseErrorFlow ==
  /\ pc = "start"
  /\ flow' = parseErrorFlow(log)
  /\ pc' = "parsed"
  /\ UNCHANGED <<log, mermaidCode>>
  /\ UNCHANGED extVars

\* const mermaidCode = buildMermaidFlowchart(flow)
CallBuildMermaidFlowchart ==
  /\ pc = "parsed"
  /\ mermaidCode' = buildMermaidFlowchart(flow)
  /\ pc' = "rendered"
  /\ UNCHANGED <<log, flow>>
  /\ UNCHANGED extVars

Next == CallParseErrorFlow \/ CallBuildMermaidFlowchart

Spec == Init /\ [][Next]_vars

\* ------------------------------------------------------------------------
\* The extension: what is written to the terminals, and the settings
\* ------------------------------------------------------------------------
\* a chunk of white space
BlankChunk ==
  <<" ", "\r", "\n">>

\* a Node-style frame line
FrameChunk ==
  <<"a", "t", " ", "f", " ", "(", "a", ".", "j", "s", ":", "1", "2", ":",
    "5", ")", "\r", "\n">>

\* the head of a Python traceback
TracebackChunk ==
  <<"T", "r", "a", "c", "e", "b", "a", "c", "k", " ", "(", "m", "o", "s",
    "t", " ", "r", "e", "c", "e", "n", "t", " ", "c", "a", "l", "l", " ",
    "l", "a", "s", "t", ")", "\n">>

SyntaxErrorLog ==
  <<"S", "y", "n", "t", "a", "x", "E", "r", "r", "o", "r", ":", " ", " ",
    "I", "n", "v", "a", "l", "i", "d", " ", "o", "r", " ", "u", "n", "e",
    "x", "p", "e", "c", "t", "e", "d", " ", "t", "o", "k", "e", "n", "\n">>

UndefinedPropertyLog ==
  <<"T", "y", "p", "e", "E", "r", "r", "o", "r", ":", " ", "C", "a", "n",
    "n", "o", "t", " ", "r", "e", "a", "d", " ", "p", "r", "o", "p", "e",
    "r", "t", "i", "e", "s", " ", "o", "f", " ", "u", "n", "d", "e", "f",
    "i", "n", "e", "d", " ", "(", "r", "e", "a", "d", "i", "n", "g", " ",
    "'", "v", "a", "l", "u", "e", "'", ")", "\n", " ", " ", " ", " ", "a",
    "t", " ", "f", " ", "(", "a", ".", "j", "s", ":", "1", "2", ":", "5",
    ")", "\n">>

CompilationLog ==
  <<"x", ".", "c", ":", "1", ":", " ", "e", "r", "r", "o", "r", ":", " ",
    "y", "\n", "c", "o", "m", "p", "i", "l", "a", "t", "i", "o", "n", " ",
    "t", "e", "r", "m", "i", "n", "a", "t", "e", "d", ".", "\n">>

ErrorOnlyLog ==
  <<"e", "r", "r", "o", "r", ":", " ", "o", "n", "l", "y", "\n">>

Chunks == {BlankChunk, FrameChunk}

\* the buffers explainLog is started on when the settings are varied
ExplainLogs ==
  {FrameChunk, TracebackChunk, SyntaxErrorLog, UndefinedPropertyLog, CompilationLog,
   ErrorOnlyLog}

\* most chunks written to the terminals altogether
MaxWrites == 2

Providers == {Undefined, OpenAI, Gemini, Host, <<"H", "O", "S", "T">>, <<"x">>}

\* the two API keys: neither set, both blank, one set
KeyPairs ==
  {<< <<>>, <<>> >>, << <<" ">>, <<" ">> >>, << <<"k">>, <<>> >>, << <<>>, <<" ", "k">> >>}

Configs ==
  {[provider |-> p, useLLM |-> u, openaiKey |-> k[1], geminiKey |-> k[2]] :
     <<p, u, k>> \in Providers \X BOOLEAN \X KeyPairs}

\* the settings the terminals and commands are exercised under
ExtConfigs ==
  {[provider |-> Undefined, useLLM |-> TRUE, openaiKey |-> o, geminiKey |-> <<>>] :
     o \in {<<>>, <<"k">>}}

\* ------------------------------------------------------------------------
\* The extension: event handler, commands, and the LLM call returning
\* ------------------------------------------------------------------------
\* entry.buffer = event.data
ReplaceData(buffer, data) == data

\* entry.buffer += event.data
AppendData(buffer, data) == buffer \o data

\* terminalBuffers.get(t), as a new entry has it when there is none
EntryBuffer(entry) == IF entry = Undefined THEN <<>> ELSE entry

\* if (!entry || !entry.buffer)
NoOutputUntrimmed(entry) == entry = Undefined \/ entry = <<>>

\* if (!entry || !entry.buffer.trim())
NoOutput(entry) == entry = Undefined \/ Trim(entry) = <<>>

\* the two early returns of a command: what it shows, or nothing when it
\* goes on
EarlyReturn(active, buffers) ==
  IF active = NoTerminal THEN {"showWarningMessage"}
  ELSE IF NoOutput(buffers[active]) THEN {"showInformationMessage"}
  ELSE {}

\* the lines, appended by the invocation i
Own(i, lines) == [k \in 1..Len(lines) |-> [owner |-> i, text |-> lines[k]]]

\* what the LLM part of explainLog does before its first real wait, under
\* the settings cfg and with the host API in the state lm: the lines it
\* appends, and whether a request is then awaited
StartOfProvider(provider, cfg, lm) ==
  IF provider = Host
  THEN IF lm = "available" THEN [lines |-> <<UsingHostLine>>, awaits |-> TRUE]
       ELSE [lines |-> <<UsingHostLine,
                         IF lm = "no lm" THEN HostUnavailableLine ELSE HostNoMessageLine,
                         FallingBackLine, <<>> >>,
             awaits |-> FALSE]
  ELSE IF provider = Gemini
  THEN IF ApiKeyOf(cfg.geminiKey) # <<>>
       THEN [lines |-> <<CallingGeminiLine>>, awaits |-> TRUE]
       ELSE [lines |-> <<NoGeminiKeyLine, FallingBackLine, <<>> >>, awaits |-> FALSE]
  ELSE IF ApiKeyOf(cfg.openaiKey) # <<>>
       THEN [lines |-> <<CallingOpenAILine>>, awaits |-> TRUE]
       ELSE [lines |-> <<NoOpenAIKeyLine, FallingBackLine, <<>> >>, awaits |-> FALSE]

\* the LLM part of explainLog up to its first real wait
StartOf(cfg, lm) ==
  IF ~cfg.useLLM THEN [lines |-> <<>>, awaits |-> FALSE]
  ELSE StartOfProvider(ProviderOf(cfg.provider), cfg, lm)

\* resolve(content) with the text kept as it came
LlmResultRaw(response) ==
  IF response.kind = "text" THEN response.text ELSE Undefined

\* content?.trim() || null of a 200 response, null of every other outcome
LlmResult(response) ==
  IF response.kind = "text" /\ Trim(response.text) # <<>> THEN Trim(response.text)
  ELSE Undefined

\* the line the collaborator appends to the channel for the outcome
DiagnosticOf(provider, response) ==
  IF response.kind = "status"
  THEN << IF provider = Gemini THEN GeminiStatusLine ELSE OpenAIStatusLine >>
  ELSE IF response.kind = "error"
  THEN << IF provider = Gemini THEN GeminiFailedLine ELSE OpenAIFailedLine >>
  ELSE IF response.kind = "no model" THEN <<HostNoModelLine>>
  ELSE IF response.kind = "throws" THEN <<HostFailedLine>>
  ELSE <<>>

\* if (llmResult) return llmResult; else the two fallback lines and the
\* heuristics: the lines appended and the explanation returned
ResultOf(llmResult, text) ==
  IF llmResult # Undefined THEN [lines |-> <<>>, explanation |-> llmResult]
  ELSE [lines |-> <<FallingBackLine, <<>> >>, explanation |-> Heuristics(text)]

\* a response text with white space around it
ResponseText ==
  <<" ", "o", "k", "\n">>

\* what a request can come back with: the text of a 200 response (empty,
\* blank or not), a non-200 status, a body that does not parse, a request
\* error; for the host model no model, or a request that throws
ResponseTexts == {<<>>, <<" ">>, ResponseText}

ResponsesOf(provider) ==
  {[kind |-> "text", text |-> x] : x \in ResponseTexts} \cup
  (IF provider = Host
   THEN {[kind |-> k, text |-> <<>>] : k \in {"no model", "throws"}}
   ELSE {[kind |-> k, text |-> <<>>] : k \in {"status", "malformed", "error"}})

\* (vscode as any).lm and LanguageModelChatMessage.User
HostStates == {"available", "no lm", "no UserMessage"}

\* onDidWriteTerminalData
WriteTerminalData(t, data) ==
  /\ activated
  /\ Len(written["t1"]) + Len(written["t2"]) < MaxWrites
  /\ terminalBuffers' =
       [terminalBuffers EXCEPT ![t] = AppendData(EntryBuffer(terminalBuffers[t]), data)]
  /\ written' = [written EXCEPT ![t] = Append(written[t], data)]
  /\ effects' = NoEffects
  /\ UNCHANGED <<activated, activeTerminal, config, explains, channel>>
  /\ UNCHANGED coreVars

\* the user switches to another terminal, or closes the last one
ChangeActiveTerminal(t) ==
  /\ activated
  /\ t # activeTerminal
  /\ activeTerminal' = t
  /\ effects' = NoEffects
  /\ UNCHANGED <<activated, terminalBuffers, written, config, explains, channel>>
  /\ UNCHANGED coreVars

\* logBuddy.visualizeLastRun
VisualizeLastRun ==
  /\ activated
  /\ IF EarlyReturn(activeTerminal, terminalBuffers) # {}
     THEN /\ effects' = [invoked |-> "visualizeLastRun",
                         calls |-> EarlyReturn(activeTerminal, terminalBuffers)]
          /\ UNCHANGED coreVars
     ELSE /\ log' = extractRelevantChunk(terminalBuffers[activeTerminal])
          /\ flow' = parseErrorFlow(log')
          /\ mermaidCode' = buildMermaidFlowchart(flow')
          /\ pc' = "rendered"
          /\ effects' = [invoked |-> "visualizeLastRun",
                         calls |-> {"extractRelevantChunk", "parseErrorFlow",
                                    "buildMermaidFlowchart", "createWebviewPanel"}]
  /\ UNCHANGED <<activated, activeTerminal, terminalBuffers, written, config, explains, channel>>

\* explainLastRun from the early returns on, up to the first real wait of
\* explainLog or, without one, to the end of the command
ExplainFrom(i, relevant, start) ==
  IF start.awaits
  THEN /\ explains' = [explains EXCEPT ![i] =
                         [pc |-> "awaiting", log |-> relevant,
                          refs |-> extractFileReferences(relevant),
                          response |-> NoResponse, explanation |-> <<>>]]
       /\ channel' = Own(i, <<HeaderLine, <<>> >> \o start.lines)
       /\ effects' = [invoked |-> "explainLastRun",
                      calls |-> {"extractRelevantChunk", "explainLog", "extractFileReferences"}]
  ELSE /\ explains' = [explains EXCEPT ![i] =
                         [pc |-> "done", log |-> relevant,
                          refs |-> IF config.useLLM THEN extractFileReferences(relevant) ELSE <<>>,
                          response |-> NoResponse, explanation |-> Heuristics(relevant)]]
       /\ channel' = Own(i, <<HeaderLine, <<>> >> \o start.lines \o <<Heuristics(relevant)>>)
       /\ effects' = [invoked |-> "explainLastRun",
                      calls |-> {"extractRelevantChunk", "explainLog",
                                 "createWebviewPanel", "sendText"} \cup
                                (IF config.useLLM THEN {"extractFileReferences"} ELSE {})]

\* logBuddy.explainLastRun, the invocation i
ExplainLastRun(i) ==
  /\ activated
  /\ explains[i].pc # "awaiting"
  /\ i = Min({j \in Calls : explains[j].pc # "awaiting"})
  /\ IF EarlyReturn(activeTerminal, terminalBuffers) # {}
     THEN /\ effects' = [invoked |-> "explainLastRun",
                         calls |-> EarlyReturn(activeTerminal, terminalBuffers)]
          /\ UNCHANGED <<explains, channel>>
     ELSE \E lm \in HostStates :
            ExplainFrom(i, extractRelevantChunk(terminalBuffers[activeTerminal]),
                        StartOf(config, lm))
  /\ UNCHANGED <<activated, activeTerminal, terminalBuffers, written, config>>
  /\ UNCHANGED coreVars

\* the rest of explainLastRun once the request has come back as response
ExplainResume(i, response, result) ==
  /\ explains' = [explains EXCEPT ![i].pc = "done", ![i].response = response,
                                  ![i].explanation = result.explanation]
  /\ channel' = channel \o Own(i, DiagnosticOf(ProviderOf(config.provider), response)
                                    \o result.lines \o <<result.explanation>>)
  /\ effects' = [invoked |-> "none", calls |-> {"createWebviewPanel", "sendText"}]

\* the awaited LLM request of the invocation i comes back
LlmReturns(i) ==
  /\ explains[i].pc = "awaiting"
  /\ \E response \in ResponsesOf(ProviderOf(config.provider)) :
       ExplainResume(i, response, ResultOf(LlmResult(response), explains[i].log))
  /\ UNCHANGED <<activated, activeTerminal, terminalBuffers, written, config>>
  /\ UNCHANGED coreVars

\* deactivate
Deactivate ==
  /\ activated
  /\ activated' = FALSE
  /\ terminalBuffers' = [t \in Terminals |-> Undefined]
  /\ effects' = NoEffects
  /\ UNCHANGED <<activeTerminal, written, config, explains, channel>>
  /\ UNCHANGED coreVars

ExtInit ==
  /\ log = <<>>
  /\ pc = "start"
  /\ flow = EmptyFlow
  /\ mermaidCode = <<>>
  /\ Activated
  /\ activeTerminal = NoTerminal
  /\ config \in ExtConfigs

ExtNext ==
  \/ \E t \in Terminals : \E data \in Chunks : WriteTerminalData(t, data)
  \/ \E t \in Terminals \cup {NoTerminal} : ChangeActiveTerminal(t)
  \/ VisualizeLastRun
  \/ ExplainLastRun(1)
  \/ LlmReturns(1)
  \/ Deactivate

ExtSpec == ExtInit /\ [][ExtNext]_vars

\* explainLastRun on a terminal that has written one chunk, under every
\* setting
ExplainInit ==
  /\ log = <<>>
  /\ pc = "start"
  /\ flow = EmptyFlow
  /\ mermaidCode = <<>>
  /\ activated = TRUE
  /\ activeTerminal = "t1"
  /\ \E data \in ExplainLogs :
       /\ terminalBuffers = [t \in Terminals |-> IF t = "t1" THEN data ELSE Undefined]
       /\ written = [t \in Terminals |-> IF t = "t1" THEN <<data>> ELSE <<>>]
  /\ config \in Configs
  /\ explains = [i \in Calls |-> IdleCall]
  /\ channel = <<>>
  /\ effects = NoEffects

ExplainNext ==
  \/ \E i \in Calls : ExplainLastRun(i)
  \/ \E i \in Calls : LlmReturns(i)

ExplainSpec == ExplainInit /\ [][ExplainNext]_vars

\* ------------------------------------------------------------------------
\* Observations the properties are stated with
\* ------------------------------------------------------------------------
Parsed == pc \in {"parsed", "rendered"}

Rendered == pc = "rendered"

LogLines == SplitLines(log)

\* the candidate each line of the log offers, in raw-log order
RECURSIVE CandidatesOf(_)
CandidatesOf(lines) ==
  IF Len(lines) = 0 THEN <<>>
  ELSE <<LineCandidate(Sanitize(Head(lines)))>> \o CandidatesOf(Tail(lines))

Candidates == CandidatesOf(LogLines)

\* the lines whose candidate, among the candidates cands, is (file, line)
OccurrencesOf(cands, file, line) ==
  {i \in 1..Len(cands) :
     cands[i].kind # "none" /\ cands[i].file = file /\ cands[i].line = line}

\* the distinct references the candidates name
ReferencesOf(cands) ==
  {<<cands[i].file, cands[i].line>> : i \in {j \in 1..Len(cands) : cands[j].kind # "none"}}

\* the positions in flow.frames of the frames for (file, line)
FramesFor(file, line) ==
  {k \in 1..Len(flow.frames) : flow.frames[k].file = file /\ flow.frames[k].line = line}

\* for each frame of the flow, the first line of the log that names it (0: none)
FirstSeen(cands) ==
  [k \in 1..Len(flow.frames) |->
     LET occ == OccurrencesOf(cands, flow.frames[k].file, flow.frames[k].line)
     IN  IF occ = {} THEN 0 ELSE Min(occ)]

\* the diagram read back from the text: its lines, the node lines among
\* them (two spaces, an identifier, then an opening bracket), their
\* identifiers and their visible texts
DiagramLines == SplitLines(mermaidCode)

NodeIdOf(l) == SubSeq(l, 3, FirstNotIn(l, 3, WordChar) - 1)

IsNodeLine(l) ==
  /\ StartsWithAt(l, <<" ", " ">>, 1)
  /\ Len(NodeIdOf(l)) >= 1
  /\ Len(l) > 2 + Len(NodeIdOf(l))
  /\ l[3 + Len(NodeIdOf(l))] \in {"[", "("}

DiagramNodes == SelectSeq(DiagramLines, IsNodeLine)

\* the text between `["` and `"]`
NodeTextOf(l) == SubSeq(l, 5 + Len(NodeIdOf(l)), Len(l) - 2)

FrameNodes == SelectSeq(DiagramNodes, LAMBDA l : NodeIdOf(l) \notin {StartId, ErrorId})

ErrorNodes == SelectSeq(DiagramNodes, LAMBDA l : NodeIdOf(l) = ErrorId)

\* a trimmed line of the shape `Identifier: message` that is no frame line:
\* word characters up to the first colon, then something that is not blank
HasSignatureShape(t) ==
  LET c == FirstIn(t, 1, {":"})
  IN  /\ c > 1
      /\ c < Len(t)
      /\ AllIn(t, 1, c - 1, WordChar)
      /\ \A i \in (c + 1)..Len(t) : t[i] \notin LineTerminator
      /\ ~StartsWithAt(t, <<"a", "t", " ">>, 1)
      /\ ~StartsWithAt(t, <<"F", "i", "l", "e", " ">>, 1)

SignatureType(t) == SubSeq(t, 1, FirstIn(t, 1, {":"}) - 1)

SignatureMessage(t) == Trim(SubSeq(t, FirstIn(t, 1, {":"}) + 1, Len(t)))

SignatureLines == {i \in 1..Len(LogLines) : HasSignatureShape(Trim(LogLines[i]))}

\* the first n characters of s
Prefix(s, n) == SubSeq(s, 1, IF Len(s) < n THEN Len(s) ELSE n)

\* s contains an SGR escape sequence
HasSgr(s) == \E k \in 1..Len(s) : SgrEnd(s, k) > 0

\* ------------------------------------------------------------------------
\* Properties
\* ------------------------------------------------------------------------

\* C1: the frames parseErrorFlow returns are pairwise distinct by
\* (file, line); a reference the log's lines offer once or several times
\* (Node-style, Python-style or both) has exactly one frame, and that frame
\* is built from the first occurrence in raw-log order: it carries the
\* first occurrence's column.
C1_DedupFirstOccurrence ==
  Parsed =>
    LET cands == Candidates
    IN  /\ \A a, b \in 1..Len(flow.frames) :
             (flow.frames[a].file = flow.frames[b].file
                /\ flow.frames[a].line = flow.frames[b].line) => a = b
        /\ \A r \in ReferencesOf(cands) :
             /\ Cardinality(FramesFor(r[1], r[2])) = 1
             /\ \A k \in FramesFor(r[1], r[2]) :
                  flow.frames[k].column = cands[Min(OccurrencesOf(cands, r[1], r[2]))].column

\* C1 witness: a reference occurs twice with different columns and the
\* parse has run.
C1_RepeatedReference ==
  /\ Parsed
  /\ LET cands == Candidates
     IN  \E r \in ReferencesOf(cands) :
           /\ FramesFor(r[1], r[2]) # {}
           /\ \E i, j \in OccurrencesOf(cands, r[1], r[2]) :
                i < j /\ cands[i].column # cands[j].column

\* C2: the frames are in the reverse of first-seen order: every reference of
\* the log has its frame, every frame comes from a line of the log, and a
\* frame that stands earlier in the flow was first seen on a later line.
C2_ReverseOfFirstSeen ==
  Parsed =>
    LET cands == Candidates
        first == FirstSeen(cands)
    IN  /\ Len(flow.frames) = Cardinality(ReferencesOf(cands))
        /\ \A k \in 1..Len(flow.frames) : first[k] >= 1
        /\ \A k \in 1..(Len(flow.frames) - 1) : first[k] > first[k + 1]

\* C2 witness: a flow of three frames or more, the innermost (first seen on
\* line 1) standing last.
C2_ThreeFramesReversed ==
  /\ Parsed
  /\ Len(flow.frames) >= 3
  /\ FirstSeen(Candidates)[Len(flow.frames)] = 1

\* C3: when the parse yields more than 8 frames, the diagram has exactly 8
\* frame nodes, the k-th showing the k-th frame of the reversed sequence,
\* and 10 nodes with the start and the terminal node.
C3_DiagramShowsFirstEight ==
  (Rendered /\ Len(flow.frames) > MaxDiagramFrames) =>
    LET nodes == DiagramNodes
        frameNodes == FrameNodes
    IN  /\ Len(frameNodes) = MaxDiagramFrames
        /\ \A k \in 1..Len(frameNodes) :
             /\ NodeIdOf(frameNodes[k]) = <<"F">> \o NumberToString(k - 1)
             /\ StartsWithAt(NodeTextOf(frameNodes[k]), flow.frames[k].label, 1)
        /\ Len(nodes) = MaxDiagramFrames + 2
        /\ NodeIdOf(nodes[1]) = StartId
        /\ NodeIdOf(nodes[Len(nodes)]) = ErrorId

\* C3 witness: a rendered flow of more than 8 frames.
C3_MoreThanEightRendered ==
  Rendered /\ Len(flow.frames) > MaxDiagramFrames

\* C4 as claimed: the ErrorFlow parseErrorFlow returns never holds more than
\* 8 frames.
C4_FlowHoldsAtMostEight ==
  Parsed => Len(flow.frames) <= MaxDiagramFrames

\* C4 as amended: the ErrorFlow holds one frame for every reference of the
\* log, be they more than 8; the cap is the renderer's, whose diagram shows
\* the first 8 frames of the flow at most.
C4_CapIsTheRenderers ==
  /\ Parsed => Len(flow.frames) = Cardinality(ReferencesOf(Candidates))
  /\ Rendered =>
       LET frameNodes == FrameNodes
       IN  /\ Len(frameNodes) =
                (IF Len(flow.frames) < MaxDiagramFrames THEN Len(flow.frames)
                 ELSE MaxDiagramFrames)
           /\ \A k \in 1..Len(frameNodes) :
                StartsWithAt(NodeTextOf(frameNodes[k]), SafeLabel(flow.frames[k].label), 1)

\* C4 witness: a flow of more than 8 frames rendered with 8 frame nodes.
C4_LongFlowShortDiagram ==
  /\ Rendered
  /\ Len(flow.frames) > MaxDiagramFrames
  /\ Len(FrameNodes) = MaxDiagramFrames

\* C5: no frame parseErrorFlow returns has a path containing `node_modules`
\* or `node:`, whichever matcher handled the line.
C5_NoInternalFrame ==
  Parsed => \A k \in 1..Len(flow.frames) : ~IsInternal(flow.frames[k].file)

\* C6: every frame parseErrorFlow returns has a non-empty path and a line
\* number greater than 0, Node-style and Python-style alike.
C6_FramesAreValid ==
  Parsed => \A k \in 1..Len(flow.frames) :
              flow.frames[k].file # <<>> /\ flow.frames[k].line > 0

\* C7: the errorMessage, when present, has at most 80 characters and is the
\* first 80 characters of the message of a signature line of the log; the
\* text of the terminal error node has at most 50 characters.
C7_Truncation ==
  /\ (Parsed /\ flow.errorMessage # Undefined) =>
       /\ Len(flow.errorMessage) <= MaxErrorMessage
       /\ \E i \in SignatureLines :
            flow.errorMessage = Prefix(SignatureMessage(Trim(LogLines[i])), MaxErrorMessage)
  /\ Rendered =>
       LET errorNodes == ErrorNodes
       IN  Len(errorNodes) = 1 /\ Len(NodeTextOf(errorNodes[1])) <= MaxErrorLabel

\* C7 witness: a message of more than 80 characters was cut to 80, and the
\* error node shows 50 characters.
C7_LongMessageCut ==
  /\ Rendered
  /\ flow.errorMessage # Undefined
  /\ Len(flow.errorMessage) = MaxErrorMessage
  /\ \E i \in SignatureLines : Len(SignatureMessage(Trim(LogLines[i]))) > MaxErrorMessage
  /\ Len(NodeTextOf(ErrorNodes[1])) = MaxErrorLabel

\* C8: the error signature is that of the signature line closest to the end
\* of the log (the lines as the finder reads them: trimmed); no earlier line
\* overrides it, and without a signature line both fields are absent.
C8_LastSignatureLineWins ==
  Parsed =>
    IF SignatureLines = {}
    THEN flow.errorType = Undefined /\ flow.errorMessage = Undefined
    ELSE LET t == Trim(LogLines[Max(SignatureLines)])
         IN  /\ flow.errorType = SignatureType(t)
             /\ flow.errorMessage = Prefix(SignatureMessage(t), MaxErrorMessage)

\* C8 witness: an `...Error: msg` line is followed by a bare
\* `Identifier: message` line, and the later line supplies the type.
C8_BareLineAfterErrorLine ==
  /\ Parsed
  /\ \E i, j \in SignatureLines :
       /\ i < j
       /\ j = Max(SignatureLines)
       /\ EndsWith(SignatureType(Trim(LogLines[i])), ErrorWord)
       /\ ~Includes(SignatureType(Trim(LogLines[j])), ErrorWord)
       /\ flow.errorType = SignatureType(Trim(LogLines[j]))

\* C9: SGR escape sequences in the log change neither errorType nor
\* errorMessage (the result is that of the log with the sequences taken
\* out), and the errorMessage holds no escape sequence.
C9_SignatureIgnoresAnsi ==
  Parsed =>
    LET clean == parseErrorFlow(StripAnsi(log))
    IN  /\ flow.errorType = clean.errorType
        /\ flow.errorMessage = clean.errorMessage
        /\ flow.errorMessage # Undefined => ~HasSgr(flow.errorMessage)

\* C10: the visible text of every frame node and of the terminal error node
\* holds no double quote, bracket or parenthesis.  Stated of the logs free
\* of escape sequences, whose `[` would reach the error node by way of C9.
C10_NodeTextsAreSafe ==
  (Rendered /\ ESC \notin {log[i] : i \in 1..Len(log)}) =>
    LET nodes == DiagramNodes
    IN  \A k \in 1..Len(nodes) :
          NodeIdOf(nodes[k]) # StartId =>
            \A i \in 1..Len(NodeTextOf(nodes[k])) :
              NodeTextOf(nodes[k])[i] \notin {"\"", "[", "]", "(", ")"}

\* C11: a log in which no line offers a frame and no line has the
\* `Identifier: message` shape parses to no frame and no error signature,
\* and renders as the start node, the terminal node `Error["Error"]` and the
\* single edge between them.
C11_NothingRecognised ==
  (Parsed /\ SignatureLines = {} /\ ReferencesOf(Candidates) = {}) =>
    /\ flow = EmptyFlow
    /\ Rendered =>
         DiagramLines =
           << <<"f", "l", "o", "w", "c", "h", "a", "r", "t", " ", "T", "B">>,
              <<" ", " ", "S", "t", "a", "r", "t", "(", "[", "R", "u", "n", "]", ")">>,
              <<" ", " ", "E", "r", "r", "o", "r", "[", "\"", "E", "r", "r", "o", "r", "\"", "]">>,
              <<" ", " ", "S", "t", "a", "r", "t", " ", "-", "-", ">", " ", "E", "r", "r", "o", "r">> >>

\* C11 witness: a rendered log with a non-blank line in which nothing is
\* recognised.
C11_UnrecognisedLogRendered ==
  /\ Rendered
  /\ Trim(log) # <<>>
  /\ SignatureLines = {}
  /\ ReferencesOf(Candidates) = {}
  /\ Len(DiagramNodes) = 2

\* the text `, col <M>`
ColumnSuffix(column) == <<",", " ", "c", "o", "l", " ">> \o NumberToString(column)

\* C12 as claimed: in the parse result the terminal frame, when its column
\* is known, carries the label `<base> line <N>, col <M>`.
C12_TerminalLabelHasColumn ==
  (Parsed /\ Len(flow.frames) >= 1 /\ flow.frames[Len(flow.frames)].column # NoNumber) =>
    EndsWith(flow.frames[Len(flow.frames)].label,
             ColumnSuffix(flow.frames[Len(flow.frames)].column))

\* C12 as amended: every frame of the parse result carries the label
\* `<base> line <N>` and nothing more; the renderer alone adds `, col <M>`,
\* to the text of the last frame node of the diagram when that frame's
\* column is known, and to no other node.
C12_ColumnIsTheRenderers ==
  /\ Parsed =>
       \A k \in 1..Len(flow.frames) :
         EndsWith(flow.frames[k].label,
                  <<" ", "l", "i", "n", "e", " ">> \o NumberToString(flow.frames[k].line))
  /\ Rendered =>
       LET frameNodes == FrameNodes
       IN  \A k \in 1..Len(frameNodes) :
             NodeTextOf(frameNodes[k]) =
               SafeLabel(flow.frames[k].label) \o
                 (IF k = Len(frameNodes) /\ flow.frames[k].column # NoNumber
                  THEN ColumnSuffix(flow.frames[k].column) ELSE <<>>)

\* C12 witness: a rendered flow of two frames or more, both with a known
\* column, whose last node alone shows the column.
C12_LastNodeShowsColumn ==
  /\ Rendered
  /\ Len(flow.frames) >= 2
  /\ Len(flow.frames) <= MaxDiagramFrames
  /\ flow.frames[1].column # NoNumber
  /\ flow.frames[Len(flow.frames)].column # NoNumber
  /\ LET frameNodes == FrameNodes
     IN  /\ EndsWith(NodeTextOf(frameNodes[Len(frameNodes)]),
                     ColumnSuffix(flow.frames[Len(flow.frames)].column))
         /\ ~Includes(NodeTextOf(frameNodes[1]), <<",", " ", "c", "o", "l", " ">>)

\* the frame each matcher, taken alone, finds on a sanitized line: the
\* Node-style matcher (paren group after `at `, or the fallback scan) and
\* the Python-style matcher
NodeMatcher(raw) ==
  IF raw # <<>> /\ ~Falsy(NodeInner(raw)) /\ ~IsInternal(NodeInner(raw))
  THEN NodeCandidate(ParseLocation(NodeInner(raw)))
  ELSE NoCandidate

PythonMatcher(raw) == IF raw # <<>> THEN PythonCandidate(PyMatch(raw)) ELSE NoCandidate

\* the first matcher, in priority order, that finds a frame
FirstSuccessful(raw) ==
  IF NodeMatcher(raw).kind # "none" THEN NodeMatcher(raw) ELSE PythonMatcher(raw)

\* C16: on every line the matchers are tried Node-style first, then
\* Python-style, and the frame is that of the first one that finds a frame:
\* the references of the flow are those the first successful matcher of each
\* line names, a line on which the Node-style matcher finds no frame but the
\* Python-style matcher does giving the Python frame.
C16_FirstSuccessfulMatcherWins ==
  Parsed =>
    {<<flow.frames[k].file, flow.frames[k].line>> : k \in 1..Len(flow.frames)} =
      {<<FirstSuccessful(Sanitize(LogLines[i])).file,
         FirstSuccessful(Sanitize(LogLines[i])).line>> :
         i \in {j \in 1..Len(LogLines) : FirstSuccessful(Sanitize(LogLines[j])).kind # "none"}}

\* the explainLastRun invocations that have got past the early returns
Started == {i \in Calls : explains[i].pc # "idle"}

Finished == {i \in Calls : explains[i].pc = "done"}

\* the invocations for which an LLM request was made
Requested == {i \in Calls : explains[i].pc = "awaiting" \/ explains[i].response.kind # "none"}

\* the outcomes of a request that are failures of the collaborator
FailureKinds == {"status", "malformed", "error", "no model", "throws"}

NoInput ==
  \/ activeTerminal = NoTerminal
  \/ terminalBuffers[activeTerminal] = Undefined
  \/ \A k \in 1..Len(terminalBuffers[activeTerminal]) :
       terminalBuffers[activeTerminal][k] \in WhiteSpace

\* C14: a command invoked when there is no active terminal, or no captured
\* buffer for it, or an empty or blank one, shows a message and returns:
\* it calls nothing else, and leaves the locals of the core, the explain
\* invocations, the channel and the buffers as they were.
C14_NoInputNoCore ==
  [][(effects'.invoked # "none" /\ NoInput) =>
       /\ effects'.calls \in {{"showWarningMessage"}, {"showInformationMessage"}}
       /\ UNCHANGED <<log, pc, flow, mermaidCode, explains, channel, terminalBuffers>>]_vars

\* C14 witness: explainLastRun has just returned early on an active terminal
\* whose captured buffer is blank but not empty.
C14_BlankBufferReported ==
  /\ activeTerminal # NoTerminal
  /\ terminalBuffers[activeTerminal] # Undefined
  /\ terminalBuffers[activeTerminal] # <<>>
  /\ NoInput
  /\ effects.invoked = "explainLastRun"
  /\ effects.calls = {"showInformationMessage"}

\* C15: an LLM request is made only when Use LLM is enabled and an API key
\* is set.
C15_LlmOnlyWithKey ==
  Requested # {} =>
    /\ config.useLLM
    /\ ApiKeyOf(config.openaiKey) # <<>> \/ ApiKeyOf(config.geminiKey) # <<>>

RECURSIVE Concat(_)
Concat(chunks) == IF Len(chunks) = 0 THEN <<>> ELSE Head(chunks) \o Concat(Tail(chunks))

\* C17: while the extension is activated the buffer of every terminal is
\* the concatenation, in arrival order, of the chunks written to it, and a
\* terminal has an entry exactly when something was written to it: writes
\* append to their own terminal's buffer only, and no command changes a
\* buffer.
C17_BuffersAreAppendOnly ==
  activated =>
    \A t \in Terminals :
      /\ EntryBuffer(terminalBuffers[t]) = Concat(written[t])
      /\ (terminalBuffers[t] = Undefined) <=> (written[t] = <<>>)

\* C17 witness: two chunks were written to one terminal, and an explain
\* invocation that got past the early returns has finished.
C17_TwoChunksAndACommand ==
  /\ activated
  /\ \E t \in Terminals :
       /\ Len(written[t]) >= 2
       /\ terminalBuffers[t] = written[t][1] \o written[t][2]
  /\ Finished # {}

\* C18: the references extractFileReferences returns for Node-style paren
\* groups name the path and the line, as the frames of parseErrorFlow do:
\* on a log with no Python-style and no drive-path reference, every
\* reference has the (path, line) of a frame of the same log.
C18_RefsAgreeWithFrames ==
  \A i \in Started :
    (RefMatches("python", explains[i].log, 1) = <<>>
       /\ RefMatches("generic", explains[i].log, 1) = <<>>) =>
      \A k \in 1..Len(explains[i].refs) :
        \E f \in 1..Len(parseErrorFlow(explains[i].log).frames) :
          /\ parseErrorFlow(explains[i].log).frames[f].file = explains[i].refs[k].path
          /\ parseErrorFlow(explains[i].log).frames[f].line = explains[i].refs[k].line

\* C19: the output channel never holds lines of two invocations at once:
\* what follows a header is the diagnostics and the explanation of the
\* invocation that wrote the header.
C19_ChannelOfOneInvocation ==
  \A k, l \in 1..Len(channel) : channel[k].owner = channel[l].owner

====
